---- MODULE Spec2Model ----
(***************************************************************************)
(* A model of go-bigbitvector: the in-memory bit vector (inMemoryArray,    *)
(* inMemoryIterator), the disk-paged bit vector (onDiskArray, its page     *)
(* cache, onDiskIterator) and the cross-backend copy (copyFromImpl).       *)
(*                                                                         *)
(* Every method is a pure operator over records that returns the records   *)
(* it changed, its return values and, when the code panics, the panic      *)
(* message.  The actions at the end apply the operators to the state.      *)
(***************************************************************************)
EXTENDS Integers, Sequences, FiniteSets, TLC

(***************************************************************************)
(* Bounds of the model.                                                    *)
(***************************************************************************)
\* Number of bits of a vector at construction (options.numValues).
NumBits == 10
\* Page size in bytes (options.pageSize).
PageSize == 1
\* The largest value of an unsigned word; it stands for 2^64 - 1.
MaxUint == 15
\* The largest ordinary argument the harness passes to Skip.
MaxSkip == 2
\* The number of bit writes (SetBitAt, Iterator.SetBit) issued in one run.
MaxWrites == 2

\* Bits in a byte: byteAndMask divides and reduces the index by 8.
BitsPerByte == 8

Wrap == MaxUint + 1
\* uint64 arithmetic: every sum and difference is reduced modulo 2^64.
U(x) == x % Wrap

Min(a, b) == IF a < b THEN a ELSE b

\* The nil page pointer, and the error values.
NoPage == 0 - 1
NoVec == 0
Nil == "nil"
EOF == "EOF"
EIO == "EIO"
ErrClosedIterator == "ErrClosedIterator"

(***************************************************************************)
(* Bytes and bit masks.                                                    *)
(***************************************************************************)
byteAndMask(index) ==
  [b |-> index \div BitsPerByte, m |-> 2 ^ (index % BitsPerByte)]

\* (x & m) != 0 for a one-bit mask m.
TestMask(x, m) == (x \div m) % 2 = 1
\* x | m
OrMask(x, m) == IF TestMask(x, m) THEN x ELSE x + m
\* x & ^m
ClearMask(x, m) == IF TestMask(x, m) THEN x - m ELSE x
\* A faulty PutMask: the branch that clears the bit is missing.
PutMaskSetOnly(x, m, bit) == OrMask(x, m)
\* if bit { x |= m } else { x &= ^m }
PutMask(x, m, bit) == IF bit THEN OrMask(x, m) ELSE ClearMask(x, m)

\* Number of bytes holding n bits: (n + 7) / 8.
NumBytes(n) == (n + (BitsPerByte - 1)) \div BitsPerByte

Zeros(n) == [k \in 1..n |-> 0]

(***************************************************************************)
(* The Byte Store (File).  f is the store's content, byte at offset o is   *)
(* f[o + 1].  rfail makes every read fail; a write fails when it touches   *)
(* an offset in wbad; sfail: the store has a Flush method, which fails.    *)
(***************************************************************************)
ReadAt(bv, len, off) ==
  IF bv.rfail THEN [n |-> 0, data |-> <<>>, err |-> EIO]
  ELSE LET size == Len(bv.f)
           n == IF off >= size THEN 0 ELSE Min(len, size - off)
       IN [n |-> n,
           data |-> SubSeq(bv.f, off + 1, off + n),
           err |-> IF n < len THEN EOF ELSE Nil]

WriteAt(bv, data, off) ==
  IF \E o \in off..(off + Len(data) - 1) : o \in bv.wbad
  THEN [bv |-> bv, err |-> EIO]
  ELSE LET size == IF off + Len(data) > Len(bv.f) THEN off + Len(data)
                   ELSE Len(bv.f)
           f2 == [k \in 1..size |->
                    IF k > off /\ k <= off + Len(data) THEN data[k - off]
                    ELSE IF k <= Len(bv.f) THEN bv.f[k] ELSE 0]
       IN [bv |-> [bv EXCEPT !.f = f2], err |-> Nil]

\* Flush of the store, where the store has such a method.
FileFlush(bv) == IF bv.sfail THEN EIO ELSE Nil

FileTruncate(bv, size) ==
  [bv EXCEPT !.f = [k \in 1..size |-> IF k <= Len(bv.f) THEN bv.f[k] ELSE 0]]

(***************************************************************************)
(* The page cache of an onDiskArray: a function from the cached page       *)
(* offsets to pages.  A *cachePage is the cache's entry at its offset.     *)
(***************************************************************************)
cachePage(data, refcnt, dirty) ==
  [data |-> data, refcnt |-> refcnt, dirty |-> dirty]

CachePut(cache, off, page) ==
  [o \in (DOMAIN cache) \cup {off} |-> IF o = off THEN page ELSE cache[o]]

CacheDelete(cache, off) ==
  [o \in (DOMAIN cache) \ {off} |-> cache[o]]

EmptyCache == [o \in {} |-> cachePage(<<>>, 0, FALSE)]

\* flushPage after its WriteAt returned w.
Flushed(bv, page, w) ==
  IF w.err # Nil THEN [bv |-> bv, err |-> w.err]
  ELSE [bv |-> [w.bv EXCEPT !.cache[page].dirty = FALSE], err |-> Nil]

flushPage(bv, page) ==
  IF page # NoPage /\ bv.cache[page].dirty
  THEN Flushed(bv, page, WriteAt(bv, bv.cache[page].data, page))
  ELSE [bv |-> bv, err |-> Nil]

\* acquirePage after its ReadAt returned r.
Acquired(bv, off, r) ==
  IF r.err # Nil /\ r.err # EOF
  THEN [bv |-> bv, page |-> NoPage, err |-> r.err]
  ELSE [bv |-> [bv EXCEPT !.cache =
                  CachePut(bv.cache, off, cachePage(r.data, 1, FALSE))],
        page |-> off, err |-> Nil]

\* A faulty acquirePage: a page found in the cache is not counted again.
acquirePageNoCount(bv, off) ==
  IF off \in DOMAIN bv.cache THEN [bv |-> bv, page |-> off, err |-> Nil]
  ELSE Acquired(bv, off, ReadAt(bv, PageSize, off))

acquirePage(bv, off) ==
  IF off \in DOMAIN bv.cache
  THEN [bv |-> [bv EXCEPT !.cache[off].refcnt = @ + 1], page |-> off, err |-> Nil]
  ELSE Acquired(bv, off, ReadAt(bv, PageSize, off))

disposePage(bv, page) ==
  IF page = NoPage THEN [bv |-> bv, panic |-> ""]
  ELSE IF bv.cache[page].dirty
  THEN [bv |-> bv, panic |-> "cannot dispose of a dirty page"]
  ELSE IF bv.cache[page].refcnt - 1 > 0
  THEN [bv |-> [bv EXCEPT !.cache[page].refcnt = @ - 1], panic |-> ""]
  ELSE [bv |-> [bv EXCEPT !.cache = CacheDelete(bv.cache, page)], panic |-> ""]

(***************************************************************************)
(* onDiskArray: [kind, f, wbad, rfail, sfail, cache, num, ro].             *)
(***************************************************************************)
onDiskArray(f, num, ro) ==
  [kind |-> "disk", f |-> f, wbad |-> {}, rfail |-> FALSE, sfail |-> FALSE,
   cache |-> EmptyCache, num |-> num, ro |-> ro]

\* BitAt after its ReadAt returned r.
BitRead(m, r) ==
  IF r.err # Nil THEN [val |-> FALSE, err |-> r.err]
  ELSE [val |-> TestMask(r.data[1], m), err |-> Nil]

onDiskArray_BitAt(bv, index) ==
  IF index >= bv.num THEN [val |-> FALSE, err |-> EOF]
  ELSE BitRead(byteAndMask(index).m, ReadAt(bv, 1, byteAndMask(index).b))

\* The loop over bv.cache of SetBitAt.  order lists the cached offsets in the
\* order the map iteration yields them; b is the loop's running byte offset,
\* which the loop body itself reassigns.
RECURSIVE PatchPages(_, _, _, _)
PatchPages(cache, order, b, byte) ==
  IF order = <<>> THEN cache
  ELSE LET off == Head(order)
           end == off + Len(cache[off].data)
       IN IF b >= off /\ b < end
          THEN PatchPages([cache EXCEPT ![off].data[(b - off) + 1] = byte],
                          Tail(order), b - off, byte)
          ELSE PatchPages(cache, Tail(order), b, byte)

\* SetBitAt after its WriteAt of the byte tmp at offset b returned w.
BytePatched(b, tmp, order, w) ==
  [bv |-> [w.bv EXCEPT !.cache = PatchPages(w.bv.cache, order, b, tmp)],
   err |-> w.err, panic |-> ""]

\* SetBitAt from "if bit" on: tmp is the byte read at offset b.
ByteWritten(bv, b, tmp, order) ==
  BytePatched(b, tmp, order, WriteAt(bv, <<tmp>>, b))

\* SetBitAt after its ReadAt returned r.
ByteRead(bv, bm, bit, order, r) ==
  IF r.err # Nil THEN [bv |-> bv, err |-> r.err, panic |-> ""]
  ELSE ByteWritten(bv, bm.b, PutMask(r.data[1], bm.m, bit), order)

\* A faulty SetBitAt: the index is not compared with the length.
onDiskArray_SetBitAtUnchecked(bv, index, bit, order) ==
  IF bv.ro THEN [bv |-> bv, err |-> Nil, panic |-> "BigBitVector is read-only"]
  ELSE ByteRead(bv, byteAndMask(index), bit, order,
                ReadAt(bv, 1, byteAndMask(index).b))

onDiskArray_SetBitAt(bv, index, bit, order) ==
  IF bv.ro THEN [bv |-> bv, err |-> Nil, panic |-> "BigBitVector is read-only"]
  ELSE IF index >= bv.num THEN [bv |-> bv, err |-> EOF, panic |-> ""]
  ELSE ByteRead(bv, byteAndMask(index), bit, order,
                ReadAt(bv, 1, byteAndMask(index).b))

onDiskArray_Iterate(v, i, j) ==
  IF i > j THEN [it |-> [kind |-> "none"], panic |-> "onDiskArray.Iterate: i > j"]
  ELSE [it |-> [kind |-> "disk", bv |-> v, page |-> NoPage, err |-> Nil,
                pos |-> U(i - 1), end |-> j, val |-> FALSE, down |-> FALSE],
        panic |-> ""]

onDiskArray_ReverseIterate(v, i, j) ==
  IF i > j
  THEN [it |-> [kind |-> "none"], panic |-> "onDiskArray.ReverseIterate: i > j"]
  ELSE [it |-> [kind |-> "disk", bv |-> v, page |-> NoPage, err |-> Nil,
                pos |-> U(j + 1), end |-> i, val |-> FALSE, down |-> TRUE],
        panic |-> ""]

\* A faulty Truncate: the file is cut but bv.num keeps the old length.
onDiskArray_TruncateKeepsNum(bv, length) ==
  IF bv.ro THEN [bv |-> bv, err |-> Nil, panic |-> "BigBitVector is read-only"]
  ELSE IF length > bv.num
  THEN [bv |-> bv, err |-> Nil, panic |-> "cannot grow a bit array"]
  ELSE IF DOMAIN bv.cache # {}
  THEN [bv |-> bv, err |-> Nil,
        panic |-> "Truncate() with live iterators is undefined behavior"]
  ELSE [bv |-> FileTruncate(bv, NumBytes(length)), err |-> Nil, panic |-> ""]

onDiskArray_Truncate(bv, length) ==
  IF bv.ro THEN [bv |-> bv, err |-> Nil, panic |-> "BigBitVector is read-only"]
  ELSE IF length > bv.num
  THEN [bv |-> bv, err |-> Nil, panic |-> "cannot grow a bit array"]
  ELSE IF DOMAIN bv.cache # {}
  THEN [bv |-> bv, err |-> Nil,
        panic |-> "Truncate() with live iterators is undefined behavior"]
  ELSE [bv |-> FileTruncate([bv EXCEPT !.num = length], NumBytes(length)),
        err |-> Nil, panic |-> ""]

\* The loop of Flush over the cached pages at the offsets in pages: every
\* page is flushed, err is the first error met.  The pages' windows are
\* disjoint and every failing write returns the same error, so the result
\* does not depend on the order of the map iteration.
RECURSIVE FlushPages(_, _, _)
\* A faulty loop: it ends at the first page whose write fails.
FlushPagesUntilError(bv, pages, err) ==
  IF pages = {} \/ err # Nil THEN [bv |-> bv, err |-> err]
  ELSE FlushPages(flushPage(bv, CHOOSE off \in pages : TRUE).bv,
                  pages \ {CHOOSE off \in pages : TRUE},
                  flushPage(bv, CHOOSE off \in pages : TRUE).err)

FlushPages(bv, pages, err) ==
  IF pages = {} THEN [bv |-> bv, err |-> err]
  ELSE FlushPages(flushPage(bv, CHOOSE off \in pages : TRUE).bv,
                  pages \ {CHOOSE off \in pages : TRUE},
                  IF err = Nil
                  THEN flushPage(bv, CHOOSE off \in pages : TRUE).err ELSE err)

\* Flush after its loop over the pages returned r: the store is flushed and
\* the first error is returned.
PagesFlushed(bv, r) ==
  [bv |-> r.bv, err |-> IF r.err = Nil THEN FileFlush(bv) ELSE r.err]

onDiskArray_Flush(bv) == PagesFlushed(bv, FlushPages(bv, DOMAIN bv.cache, Nil))

\* A faulty Freeze: the pages are flushed but the vector stays writable.
onDiskArray_FreezeFlushesOnly(bv) == onDiskArray_Flush(bv)

onDiskArray_Freeze(bv) == onDiskArray_Flush([bv EXCEPT !.ro = TRUE])

\* A faulty Close: the cache is not looked at.
onDiskArray_CloseUnchecked(bv) == [err |-> Nil, panic |-> ""]

\* Close of the vector: the file is closed (or removed) unless Close panics.
onDiskArray_Close(bv) ==
  IF DOMAIN bv.cache # {}
  THEN [err |-> Nil, panic |-> "BigBitVector.Close called with outstanding iterators"]
  ELSE [err |-> Nil, panic |-> ""]

(***************************************************************************)
(* onDiskIterator: [kind, bv, page, err, pos, end, val, down].  bv is the  *)
(* id of the iterator's vector (NoVec: nil), page the offset of the held   *)
(* page (NoPage: nil).  The operators take the vector's record as bv.      *)
(***************************************************************************)
ClosedDiskIterator ==
  [kind |-> "disk", bv |-> NoVec, page |-> NoPage, err |-> ErrClosedIterator,
   pos |-> 0, end |-> 0, val |-> FALSE, down |-> FALSE]

\* A faulty Index: the reverse iterator's index is not pos - 1.
onDiskIterator_IndexIsPos(it) == it.pos

onDiskIterator_Index(it) == IF it.down THEN U(it.pos - 1) ELSE it.pos

\* pageOffset := (b / psz) * psz
PageOffset(index) == (byteAndMask(index).b \div PageSize) * PageSize

\* Skip's last lines: the bounds check and the read, with data the held page's
\* bytes.
PageRead(bv, it, bm, pageOffset, data) ==
  IF bm.b < it.page \/ bm.b > it.page + Len(data)
  THEN [bv |-> bv, it |-> it, ok |-> FALSE, panic |-> "BUG"]
  ELSE IF bm.b - pageOffset >= Len(data)
  THEN [bv |-> bv, it |-> it, ok |-> FALSE, panic |-> "index out of range"]
  ELSE [bv |-> bv,
        it |-> [it EXCEPT !.val = TestMask(data[(bm.b - pageOffset) + 1], bm.m)],
        ok |-> TRUE, panic |-> ""]

\* Skip after acquirePage returned a.
PageAcquired(it, index, a) ==
  IF a.err # Nil
  THEN [bv |-> a.bv, it |-> [it EXCEPT !.err = a.err, !.val = FALSE],
        ok |-> FALSE, panic |-> ""]
  ELSE PageRead(a.bv, [it EXCEPT !.page = a.page], byteAndMask(index),
                PageOffset(index), a.bv.cache[a.page].data)

\* Skip from "if page == nil" on.
PageWanted(bv, it, index) ==
  IF it.page = NoPage
  THEN PageAcquired(it, index, acquirePage(bv, PageOffset(index)))
  ELSE PageRead(bv, it, byteAndMask(index), PageOffset(index),
                bv.cache[it.page].data)

\* A faulty PageFlushed: the error of flushPage is ignored.
PageFlushedIgnoresErr(it, index, fl) ==
  PageWanted(disposePage(fl.bv, it.page).bv, [it EXCEPT !.page = NoPage], index)

\* Skip after flushPage of the page it leaves returned fl.
PageFlushed(it, index, fl) ==
  IF fl.err # Nil
  THEN [bv |-> fl.bv, it |-> [it EXCEPT !.err = fl.err, !.val = FALSE],
        ok |-> FALSE, panic |-> ""]
  ELSE PageWanted(disposePage(fl.bv, it.page).bv, [it EXCEPT !.page = NoPage],
                  index)

\* Skip from "psz := uint64(iter.bv.psz)" on: index is the target index.
SkipToIndex(bv, it, index) ==
  IF it.page # NoPage /\ it.page # PageOffset(index)
  THEN PageFlushed(it, index, flushPage(bv, it.page))
  ELSE PageWanted(bv, it, index)

onDiskIterator_Skip(bv, it, n) ==
  IF it.err # Nil THEN [bv |-> bv, it |-> it, ok |-> FALSE, panic |-> ""]
  ELSE IF it.down
  THEN IF it.pos <= U(it.end + n)
       THEN [bv |-> bv, it |-> [it EXCEPT !.pos = it.end, !.val = FALSE],
             ok |-> FALSE, panic |-> ""]
       ELSE SkipToIndex(bv, [it EXCEPT !.pos = U(it.pos - n)],
                        U(U(it.pos - n) - 1))
  ELSE IF U(it.pos + n) >= it.end
       THEN [bv |-> bv, it |-> [it EXCEPT !.pos = it.end, !.val = FALSE],
             ok |-> FALSE, panic |-> ""]
       ELSE SkipToIndex(bv, [it EXCEPT !.pos = U(it.pos + n)], U(it.pos + n))

onDiskIterator_Next(bv, it) == onDiskIterator_Skip(bv, it, 1)

\* A faulty SetBit: the page is changed but not marked dirty.
onDiskIterator_SetBitNotDirty(bv, it, bit) ==
  IF it.bv = NoVec
  THEN [bv |-> bv, it |-> it, panic |-> "nil pointer dereference"]
  ELSE IF bv.ro THEN [bv |-> bv, it |-> it, panic |-> "BigArray is read-only"]
  ELSE IF it.err # Nil THEN [bv |-> bv, it |-> it, panic |-> ""]
  ELSE IF it.page = NoPage
  THEN [bv |-> bv, it |-> it, panic |-> "nil pointer dereference"]
  ELSE LET bm == byteAndMask(onDiskIterator_Index(it))
           b == U(bm.b - it.page)
           data == bv.cache[it.page].data
       IN IF b >= Len(data)
          THEN [bv |-> bv, it |-> it, panic |-> "index out of range"]
          ELSE [bv |-> [bv EXCEPT
                          !.cache[it.page].data[b + 1] = PutMask(data[b + 1], bm.m, bit)],
                it |-> it, panic |-> ""]

onDiskIterator_SetBit(bv, it, bit) ==
  IF it.bv = NoVec
  THEN [bv |-> bv, it |-> it, panic |-> "nil pointer dereference"]
  ELSE IF bv.ro THEN [bv |-> bv, it |-> it, panic |-> "BigArray is read-only"]
  ELSE IF it.err # Nil THEN [bv |-> bv, it |-> it, panic |-> ""]
  ELSE IF it.page = NoPage
  THEN [bv |-> bv, it |-> it, panic |-> "nil pointer dereference"]
  ELSE LET bm == byteAndMask(onDiskIterator_Index(it))
           b == U(bm.b - it.page)
           data == bv.cache[it.page].data
       IN IF b >= Len(data)
          THEN [bv |-> bv, it |-> it, panic |-> "index out of range"]
          ELSE [bv |-> [bv EXCEPT
                          !.cache[it.page].data[b + 1] = PutMask(data[b + 1], bm.m, bit),
                          !.cache[it.page].dirty = TRUE],
                it |-> it, panic |-> ""]

onDiskIterator_Flush(bv, it) == flushPage(bv, it.page)

\* Close after disposePage returned d; err is what Close returns.
Disposed(bv, it, err, d) ==
  IF d.panic # ""
  THEN [bv |-> bv, it |-> it, err |-> err, panic |-> d.panic]
  ELSE [bv |-> d.bv, it |-> ClosedDiskIterator, err |-> err, panic |-> ""]

\* A faulty Close: the iterator's own error does not replace Flush's result.
CloseFlushedDropsErr(it, fl) ==
  Disposed(fl.bv, it, fl.err, disposePage(fl.bv, it.page))

\* Close after Flush returned fl.
CloseFlushed(it, fl) ==
  Disposed(fl.bv, it, IF it.err # Nil THEN it.err ELSE fl.err,
           disposePage(fl.bv, it.page))

onDiskIterator_Close(bv, it) == CloseFlushed(it, onDiskIterator_Flush(bv, it))

(***************************************************************************)
(* inMemoryArray: [kind, data, bits, ro].  Byte b of data is data[b + 1].  *)
(***************************************************************************)
inMemoryArray(data, bits, ro) ==
  [kind |-> "mem", data |-> data, bits |-> bits, ro |-> ro]

inMemoryArray_BitAt(bv, index) ==
  IF index >= bv.bits THEN [val |-> FALSE, err |-> EOF]
  ELSE LET bm == byteAndMask(index)
       IN [val |-> TestMask(bv.data[bm.b + 1], bm.m), err |-> Nil]

inMemoryArray_SetBitAt(bv, index, bit) ==
  IF bv.ro THEN [bv |-> bv, err |-> Nil, panic |-> "BigBitVector is read-only"]
  ELSE IF index >= bv.bits THEN [bv |-> bv, err |-> EOF, panic |-> ""]
  ELSE LET bm == byteAndMask(index)
       IN [bv |-> [bv EXCEPT !.data[bm.b + 1] = PutMask(@, bm.m, bit)],
           err |-> Nil, panic |-> ""]

inMemoryArray_Iterate(v, i, j) ==
  IF i > j THEN [it |-> [kind |-> "none"], panic |-> "inMemoryArray.Iterate: i > j"]
  ELSE [it |-> [kind |-> "mem", bv |-> v, err |-> Nil, base |-> i, pos |-> 0,
                num |-> U(j - i), val |-> FALSE, primed |-> FALSE, down |-> FALSE],
        panic |-> ""]

inMemoryArray_ReverseIterate(v, i, j) ==
  IF i > j
  THEN [it |-> [kind |-> "none"], panic |-> "inMemoryArray.ReverseIterate: i > j"]
  ELSE [it |-> [kind |-> "mem", bv |-> v, err |-> Nil, base |-> i, pos |-> 0,
                num |-> U(j - i), val |-> FALSE, primed |-> FALSE, down |-> TRUE],
        panic |-> ""]

inMemoryArray_Truncate(bv, n) ==
  IF bv.ro THEN [bv |-> bv, err |-> Nil, panic |-> "BigBitVector is read-only"]
  ELSE IF n > bv.bits
  THEN [bv |-> bv, err |-> Nil, panic |-> "cannot grow a bit array"]
  ELSE [bv |-> [bv EXCEPT !.data = SubSeq(bv.data, 1, NumBytes(n)), !.bits = n],
        err |-> Nil, panic |-> ""]

inMemoryArray_Freeze(bv) == [bv |-> [bv EXCEPT !.ro = TRUE], err |-> Nil]

(***************************************************************************)
(* inMemoryIterator: [kind, bv, err, base, pos, num, val, primed, down].   *)
(***************************************************************************)
ClosedMemIterator ==
  [kind |-> "mem", bv |-> NoVec, err |-> ErrClosedIterator, base |-> 0,
   pos |-> 0, num |-> 0, val |-> FALSE, primed |-> FALSE, down |-> FALSE]

inMemoryIterator_Index(it) ==
  IF ~it.primed THEN [val |-> 0, panic |-> "must call Next() before Index()"]
  ELSE IF it.pos >= it.num
  THEN [val |-> 0, panic |-> "must not call Index() after Next() returns false"]
  ELSE IF it.down
  THEN [val |-> U(it.base + U(U(it.num - it.pos) - 1)), panic |-> ""]
  ELSE [val |-> U(it.base + it.pos), panic |-> ""]

inMemoryIterator_Bit(it) ==
  IF ~it.primed THEN [val |-> FALSE, panic |-> "must call Next() before Bit()"]
  ELSE IF it.pos >= it.num
  THEN [val |-> FALSE, panic |-> "must not call Bit() after Next() returns false"]
  ELSE [val |-> it.val, panic |-> ""]

inMemoryIterator_SetBit(bv, it, bit) ==
  IF ~it.primed
  THEN [bv |-> bv, it |-> it, panic |-> "must call Next() before SetBit()"]
  ELSE IF it.pos >= it.num
  THEN [bv |-> bv, it |-> it,
        panic |-> "must not call SetBit() after Next() returns false"]
  ELSE IF it.err # Nil THEN [bv |-> bv, it |-> it, panic |-> ""]
  ELSE IF bv.ro THEN [bv |-> bv, it |-> it, panic |-> "BigBitVector is read-only"]
  ELSE LET bm == byteAndMask(inMemoryIterator_Index(it).val)
       IN IF bm.b >= Len(bv.data)
          THEN [bv |-> bv, it |-> [it EXCEPT !.val = bit],
                panic |-> "index out of range"]
          ELSE [bv |-> [bv EXCEPT !.data[bm.b + 1] = PutMask(@, bm.m, bit)],
                it |-> [it EXCEPT !.val = bit], panic |-> ""]

inMemoryIterator_Skip(bv, it, n) ==
  IF it.pos > it.num
  THEN [bv |-> bv, it |-> it, ok |-> FALSE, panic |-> "iter.pos > iter.num"]
  ELSE IF n = 0 /\ ~it.primed
  THEN [bv |-> bv, it |-> it, ok |-> FALSE,
        panic |-> "must call Next() before Skip(0)"]
  ELSE IF it.err # Nil THEN [bv |-> bv, it |-> it, ok |-> FALSE, panic |-> ""]
  ELSE LET n1 == IF ~it.primed THEN U(n - 1) ELSE n
           it1 == [it EXCEPT !.primed = TRUE]
       IN IF n1 >= U(it1.num - it1.pos)
          THEN [bv |-> bv, it |-> [it1 EXCEPT !.pos = it1.num, !.val = FALSE],
                ok |-> FALSE, panic |-> ""]
          ELSE LET it2 == [it1 EXCEPT !.pos = U(it1.pos + n1)]
                   bm == byteAndMask(inMemoryIterator_Index(it2).val)
               IN IF bm.b >= Len(bv.data)
                  THEN [bv |-> bv, it |-> it2, ok |-> FALSE,
                        panic |-> "index out of range"]
                  ELSE [bv |-> bv,
                        it |-> [it2 EXCEPT !.val = TestMask(bv.data[bm.b + 1], bm.m)],
                        ok |-> TRUE, panic |-> ""]

inMemoryIterator_Next(bv, it) == inMemoryIterator_Skip(bv, it, 1)

inMemoryIterator_Close(bv, it) ==
  [bv |-> bv, it |-> ClosedMemIterator, err |-> it.err, panic |-> ""]

(***************************************************************************)
(* The BigBitVector and Iterator interfaces: dynamic dispatch on the       *)
(* concrete type.  vec maps the vector ids to the vectors' records; an     *)
(* iterator names its vector by id.                                        *)
(***************************************************************************)
NilVec == [kind |-> "nil"]

\* The vector an iterator points to, and vec with that vector replaced.
VecOf(vec, it) == IF it.bv = NoVec THEN NilVec ELSE vec[it.bv]
WithVec(vec, it, bv) == IF it.bv = NoVec THEN vec ELSE [vec EXCEPT ![it.bv] = bv]

BigBitVector_Len(bv) == IF bv.kind = "disk" THEN bv.num ELSE bv.bits

BigBitVector_BitAt(bv, index) ==
  IF bv.kind = "disk" THEN onDiskArray_BitAt(bv, index)
  ELSE inMemoryArray_BitAt(bv, index)

BigBitVector_SetBitAt(bv, index, bit, order) ==
  IF bv.kind = "disk" THEN onDiskArray_SetBitAt(bv, index, bit, order)
  ELSE inMemoryArray_SetBitAt(bv, index, bit)

BigBitVector_Iterate(vec, v, i, j) ==
  IF vec[v].kind = "disk" THEN onDiskArray_Iterate(v, i, j)
  ELSE inMemoryArray_Iterate(v, i, j)

BigBitVector_ReverseIterate(vec, v, i, j) ==
  IF vec[v].kind = "disk" THEN onDiskArray_ReverseIterate(v, i, j)
  ELSE inMemoryArray_ReverseIterate(v, i, j)

BigBitVector_Truncate(bv, n) ==
  IF bv.kind = "disk" THEN onDiskArray_Truncate(bv, n)
  ELSE inMemoryArray_Truncate(bv, n)

BigBitVector_Frozen(bv) == bv.ro

BigBitVector_Freeze(bv) ==
  IF bv.kind = "disk" THEN onDiskArray_Freeze(bv) ELSE inMemoryArray_Freeze(bv)

\* inMemoryArray.Flush returns nil.
BigBitVector_Flush(bv) ==
  IF bv.kind = "disk" THEN onDiskArray_Flush(bv) ELSE [bv |-> bv, err |-> Nil]

\* inMemoryArray.Close returns nil.
BigBitVector_Close(bv) ==
  IF bv.kind = "disk" THEN onDiskArray_Close(bv) ELSE [err |-> Nil, panic |-> ""]

\* The result r of a method of iterator it, with the vector it changed put
\* back among the vectors.
Moved(vec, it, r) ==
  [vec |-> WithVec(vec, it, r.bv), it |-> r.it, ok |-> r.ok, panic |-> r.panic]
Written(vec, it, r) ==
  [vec |-> WithVec(vec, it, r.bv), it |-> r.it, panic |-> r.panic]
Flushing(vec, it, r) == [vec |-> WithVec(vec, it, r.bv), err |-> r.err]
Closing(vec, it, r) ==
  [vec |-> WithVec(vec, it, r.bv), it |-> r.it, err |-> r.err, panic |-> r.panic]

Iterator_Skip(vec, it, n) ==
  Moved(vec, it, IF it.kind = "disk" THEN onDiskIterator_Skip(VecOf(vec, it), it, n)
                 ELSE inMemoryIterator_Skip(VecOf(vec, it), it, n))

Iterator_Next(vec, it) ==
  Moved(vec, it, IF it.kind = "disk" THEN onDiskIterator_Next(VecOf(vec, it), it)
                 ELSE inMemoryIterator_Next(VecOf(vec, it), it))

Iterator_Index(it) ==
  IF it.kind = "disk" THEN [val |-> onDiskIterator_Index(it), panic |-> ""]
  ELSE inMemoryIterator_Index(it)

Iterator_Bit(it) ==
  IF it.kind = "disk" THEN [val |-> it.val, panic |-> ""]
  ELSE inMemoryIterator_Bit(it)

Iterator_SetBit(vec, it, bit) ==
  Written(vec, it,
          IF it.kind = "disk" THEN onDiskIterator_SetBit(VecOf(vec, it), it, bit)
          ELSE inMemoryIterator_SetBit(VecOf(vec, it), it, bit))

Iterator_Err(it) == it.err

Iterator_Flush(vec, it) ==
  Flushing(vec, it,
           IF it.kind = "disk" THEN onDiskIterator_Flush(VecOf(vec, it), it)
           ELSE [bv |-> VecOf(vec, it), err |-> Nil])

Iterator_Close(vec, it) ==
  Closing(vec, it,
          IF it.kind = "disk" THEN onDiskIterator_Close(VecOf(vec, it), it)
          ELSE inMemoryIterator_Close(VecOf(vec, it), it))

(***************************************************************************)
(* copyFromImpl and the two CopyFrom methods.  dst and src are vector ids. *)
(***************************************************************************)
\* for srcIter.Next() && dstIter.Next() { dstIter.SetBit(srcIter.Bit()) }
\* CopyLoop is the loop; the operators before it are its steps, each taking
\* what the call before it returned.
RECURSIVE CopyLoop(_, _, _)
BitSet(srcIter, sb) ==
  IF sb.panic # ""
  THEN [vec |-> sb.vec, srcIter |-> srcIter, dstIter |-> sb.it, panic |-> sb.panic]
  ELSE CopyLoop(sb.vec, srcIter, sb.it)

BitGot(srcIter, nd, bit) ==
  IF bit.panic # ""
  THEN [vec |-> nd.vec, srcIter |-> srcIter, dstIter |-> nd.it, panic |-> bit.panic]
  ELSE BitSet(srcIter, Iterator_SetBit(nd.vec, nd.it, bit.val))

DstMoved(srcIter, nd) ==
  IF nd.panic # "" \/ ~nd.ok
  THEN [vec |-> nd.vec, srcIter |-> srcIter, dstIter |-> nd.it, panic |-> nd.panic]
  ELSE BitGot(srcIter, nd, Iterator_Bit(srcIter))

SrcMoved(dstIter, ns) ==
  IF ns.panic # "" \/ ~ns.ok
  THEN [vec |-> ns.vec, srcIter |-> ns.it, dstIter |-> dstIter, panic |-> ns.panic]
  ELSE DstMoved(ns.it, Iterator_Next(ns.vec, dstIter))

CopyLoop(vec, srcIter, dstIter) == SrcMoved(dstIter, Iterator_Next(vec, srcIter))

\* copyFromImpl after srcIter.Close() returned cs (cd: what dstIter.Close()
\* returned).  When dstIter.Close() returned an error, copyFromImpl returns
\* it and the deferred function closes srcIter.
SrcClosed(cd, cs) ==
  IF cs.panic # "" THEN [vec |-> cs.vec, err |-> Nil, panic |-> cs.panic]
  ELSE [vec |-> cs.vec, err |-> IF cd.err # Nil THEN cd.err ELSE cs.err,
        panic |-> ""]

\* copyFromImpl after dstIter.Close() returned cd.
DstClosed(srcIter, cd) ==
  IF cd.panic # "" THEN [vec |-> cd.vec, err |-> Nil, panic |-> cd.panic]
  ELSE SrcClosed(cd, Iterator_Close(cd.vec, srcIter))

\* copyFromImpl after the loop ended in loop.
Copied(loop) ==
  IF loop.panic # "" THEN [vec |-> loop.vec, err |-> Nil, panic |-> loop.panic]
  ELSE DstClosed(loop.srcIter, Iterator_Close(loop.vec, loop.dstIter))

copyFromImpl(vec, dst, src) ==
  Copied(CopyLoop(vec,
                  BigBitVector_Iterate(vec, src, 0, BigBitVector_Len(vec[src])).it,
                  BigBitVector_Iterate(vec, dst, 0, BigBitVector_Len(vec[dst])).it))

\* copy(bv.data, x.data): the first min(len(dst), len(src)) bytes.
CopyBytes(dstData, srcData) ==
  [k \in 1..Len(dstData) |-> IF k <= Len(srcData) THEN srcData[k] ELSE dstData[k]]

inMemoryArray_CopyFrom(vec, dst, src) ==
  IF vec[dst].ro
  THEN [vec |-> vec, err |-> Nil, panic |-> "BigBitVector is read-only"]
  ELSE IF BigBitVector_Len(vec[src]) # BigBitVector_Len(vec[dst])
  THEN [vec |-> vec, err |-> Nil, panic |-> "bit arrays are not equal in size"]
  ELSE IF vec[src].kind = "mem"
  THEN [vec |-> [vec EXCEPT ![dst].data = CopyBytes(vec[dst].data, vec[src].data)],
        err |-> Nil, panic |-> ""]
  ELSE copyFromImpl(vec, dst, src)

onDiskArray_CopyFrom(vec, dst, src) ==
  IF vec[dst].ro
  THEN [vec |-> vec, err |-> Nil, panic |-> "BigBitVector is read-only"]
  ELSE IF BigBitVector_Len(vec[src]) # BigBitVector_Len(vec[dst])
  THEN [vec |-> vec, err |-> Nil, panic |-> "bit arrays are not equal in size"]
  ELSE copyFromImpl(vec, dst, src)

BigBitVector_CopyFrom(vec, dst, src) ==
  IF vec[dst].kind = "disk" THEN onDiskArray_CopyFrom(vec, dst, src)
  ELSE inMemoryArray_CopyFrom(vec, dst, src)

(***************************************************************************)
(* The state: the vectors, the iterators the callers hold, the last call   *)
(* with what it returned, and the panic that aborted the program, if any.  *)
(* writes counts the bit writes issued; shadow, writer and hist are        *)
(* history variables the properties are stated with: shadow[k] is the      *)
(* value last written to bit k, writer[k] the iterator that wrote it (0:   *)
(* SetBitAt or the initial value), hist what each specification records.   *)
(***************************************************************************)
VARIABLES vec, iter, ret, panicked, writes, shadow, writer, hist

vars == <<vec, iter, ret, panicked, writes, shadow, writer, hist>>

VecIds == {1, 2}
IterIds == {1, 2}

\* Skip's ordinary arguments (Next is Skip(1)).
SkipArgs == (0..MaxSkip) \ {1}

\* All bits that the bytes of a vector of NumBits bits hold.
AllBits == 0..(NumBytes(NumBits) * BitsPerByte - 1)

\* The contents the runs start from: the callers have set bits 0, 2, 5 and 7
\* of every byte, as far as they lie below NumBits.
ValidBits(k) == Min(BitsPerByte, NumBits - BitsPerByte * (k - 1))
Pattern == [k \in 1..NumBytes(NumBits) |-> 165 % (2 ^ ValidBits(k))]
Contents == {Pattern}

\* New(): an in-memory vector below the disk threshold, else a disk vector.
New(kind, content) ==
  IF kind = "mem" THEN inMemoryArray(content, NumBits, FALSE)
  ELSE onDiskArray(content, NumBits, FALSE)

\* The bytes a vector stores (bypassing the cache), and bit k of them.
Bytes(bv) == IF bv.kind = "disk" THEN bv.f ELSE bv.data
StoredBit(bv, k) ==
  LET bm == byteAndMask(k)
  IN bm.b < Len(Bytes(bv)) /\ TestMask(Bytes(bv)[bm.b + 1], bm.m)

\* The orders in which a map iteration can yield the keys in S.
Orders(S) ==
  {o \in [1..Cardinality(S) -> S] : \A a, b \in 1..Cardinality(S) : o[a] = o[b] => a = b}
CacheOrders(bv) == IF bv.kind = "disk" THEN Orders(DOMAIN bv.cache) ELSE {<<>>}

NoIter == [kind |-> "none"]
NoHist == [nexts |-> 0]
\* What SpecIter records: the range and direction the two iterators were
\* created with, the number of Next() calls on the first with the result of
\* the last one, and the argument and result of the Skip() call on the second.
NoWalk ==
  [i |-> 0, j |-> 0, down |-> FALSE, nexts |-> 0, walk |-> FALSE,
   skipped |-> 0, jump |-> FALSE]
\* The last call: its name, the vector or iterator it was made on, and what it
\* returned (val: the bool, err: the error).
Call(op, id) == [op |-> op, id |-> id, val |-> FALSE, err |-> Nil]

\* The state after the vectors are constructed: kinds[v] is the backend of
\* vector v ("nil": not constructed), contents[v] its bytes.
InitWith(kinds, contents, h) ==
  /\ vec = [v \in VecIds |-> IF kinds[v] = "nil" THEN NilVec
                             ELSE New(kinds[v], contents[v])]
  /\ iter = [x \in IterIds |-> NoIter]
  /\ ret = Call("New", 0)
  /\ panicked = ""
  /\ writes = 0
  /\ shadow = [k \in AllBits |-> StoredBit(New("mem", contents[1]), k)]
  /\ writer = [k \in AllBits |-> 0]
  /\ hist = h

Running == panicked = ""

(***************************************************************************)
(* The environment.  During one call the store fails every read (rfail),   *)
(* every write that touches an offset in wbad, or its own Flush (sfail);   *)
(* io is that choice.                                                      *)
(***************************************************************************)
StoreOffsets == 0..(NumBytes(NumBits) - 1)
NoFault == [wbad |-> {}, rfail |-> FALSE, sfail |-> FALSE]
WriteFault == [wbad |-> StoreOffsets, rfail |-> FALSE, sfail |-> FALSE]
ReadFault == [wbad |-> {}, rfail |-> TRUE, sfail |-> FALSE]
Faults == {NoFault, WriteFault, ReadFault}
\* The failures Flush() of a vector can meet: the writes to the first page,
\* to the second page or to both fail, or the store's own Flush fails.
FlushFaults ==
  [wbad : {{}, {0}, {PageSize}, StoreOffsets}, rfail : {FALSE}, sfail : {FALSE}]
    \cup {[wbad |-> {}, rfail |-> FALSE, sfail |-> TRUE]}
Under(bv, io) ==
  IF bv.kind = "disk"
  THEN [bv EXCEPT !.wbad = io.wbad, !.rfail = io.rfail, !.sfail = io.sfail]
  ELSE bv
UnderAll(vs, io) == [v \in DOMAIN vs |-> Under(vs[v], io)]
Calm(vs) == UnderAll(vs, NoFault)

(***************************************************************************)
(* The calls on a vector.                                                  *)
(***************************************************************************)
\* What the calls leave behind, given the result r of the method.
BitAtReturned(v, r) ==
  ret' = [Call("BitAt", v) EXCEPT !.val = r.val, !.err = r.err]

BitAt(v, i, io) ==
  /\ Running
  /\ BitAtReturned(v, BigBitVector_BitAt(Under(vec[v], io), i))
  /\ UNCHANGED <<vec, iter, panicked, writes, shadow, writer>>

SetBitAtReturned(v, i, bit, r) ==
  /\ vec' = Calm([vec EXCEPT ![v] = r.bv])
  /\ ret' = [Call("SetBitAt", v) EXCEPT !.err = r.err]
  /\ panicked' = r.panic
  /\ shadow' = IF r.panic = "" /\ r.err = Nil THEN [shadow EXCEPT ![i] = bit]
               ELSE shadow
  /\ writer' = IF r.panic = "" /\ r.err = Nil THEN [writer EXCEPT ![i] = 0]
               ELSE writer

SetBitAt(v, i, bit, order, io) ==
  /\ Running
  /\ writes < MaxWrites
  /\ SetBitAtReturned(v, i, bit,
                      BigBitVector_SetBitAt(Under(vec[v], io), i, bit, order))
  /\ writes' = writes + 1
  /\ UNCHANGED iter

TruncateReturned(v, r) ==
  /\ vec' = [vec EXCEPT ![v] = r.bv]
  /\ ret' = [Call("Truncate", v) EXCEPT !.err = r.err]
  /\ panicked' = r.panic

Truncate(v, m) ==
  /\ Running
  /\ TruncateReturned(v, BigBitVector_Truncate(vec[v], m))
  /\ UNCHANGED <<iter, writes, shadow, writer>>

IterateReturned(x, down, r) ==
  /\ iter' = [iter EXCEPT ![x] = r.it]
  /\ panicked' = r.panic
  /\ ret' = Call(IF down THEN "ReverseIterate" ELSE "Iterate", x)

\* Iterate(i, j) (down = FALSE) or ReverseIterate(i, j); the caller keeps the
\* iterator as x.
Iterate(x, v, i, j, down) ==
  /\ Running
  /\ iter[x].kind = "none"
  /\ j <= BigBitVector_Len(vec[v])
  /\ IterateReturned(x, down,
                     IF down THEN BigBitVector_ReverseIterate(vec, v, i, j)
                     ELSE BigBitVector_Iterate(vec, v, i, j))
  /\ UNCHANGED <<vec, writes, shadow, writer>>

(***************************************************************************)
(* The calls on an iterator.                                               *)
(***************************************************************************)
MoveReturned(x, op, r) ==
  /\ vec' = Calm(r.vec)
  /\ iter' = [iter EXCEPT ![x] = r.it]
  /\ ret' = [Call(op, x) EXCEPT !.val = r.ok]
  /\ panicked' = r.panic

Next(x, io) ==
  /\ Running
  /\ iter[x].kind # "none"
  /\ MoveReturned(x, "Next", Iterator_Next(UnderAll(vec, io), iter[x]))
  /\ UNCHANGED <<writes, shadow, writer>>

Skip(x, n, io) ==
  /\ Running
  /\ iter[x].kind # "none"
  /\ MoveReturned(x, "Skip", Iterator_Skip(UnderAll(vec, io), iter[x], n))
  /\ UNCHANGED <<writes, shadow, writer>>

\* k is the index the iterator is at, done whether SetBit wrote the bit.
SetBitReturned(x, bit, k, done, r) ==
  /\ vec' = r.vec
  /\ iter' = [iter EXCEPT ![x] = r.it]
  /\ ret' = Call("SetBit", x)
  /\ panicked' = r.panic
  /\ shadow' = IF done /\ r.panic = "" /\ k \in AllBits
               THEN [shadow EXCEPT ![k] = bit] ELSE shadow
  /\ writer' = IF done /\ r.panic = "" /\ k \in AllBits
               THEN [writer EXCEPT ![k] = x] ELSE writer

SetBit(x, bit) ==
  /\ Running
  /\ iter[x].kind # "none"
  /\ writes < MaxWrites
  /\ SetBitReturned(x, bit, Iterator_Index(iter[x]).val, iter[x].err = Nil,
                    Iterator_SetBit(vec, iter[x], bit))
  /\ writes' = writes + 1

FlushReturned(x, r) ==
  /\ vec' = Calm(r.vec)
  /\ ret' = [Call("Flush", x) EXCEPT !.err = r.err]

Flush(x, io) ==
  /\ Running
  /\ iter[x].kind # "none"
  /\ FlushReturned(x, Iterator_Flush(UnderAll(vec, io), iter[x]))
  /\ UNCHANGED <<iter, panicked, writes, shadow, writer>>

CloseReturned(x, r) ==
  /\ vec' = Calm(r.vec)
  /\ iter' = [iter EXCEPT ![x] = r.it]
  /\ ret' = [Call("Close", x) EXCEPT !.err = r.err]
  /\ panicked' = r.panic

Close(x, io) ==
  /\ Running
  /\ iter[x].kind # "none"
  /\ CloseReturned(x, Iterator_Close(UnderAll(vec, io), iter[x]))
  /\ UNCHANGED <<writes, shadow, writer>>

(***************************************************************************)
(* dst.CopyFrom(src).                                                      *)
(***************************************************************************)
CopyFromReturned(dst, r) ==
  /\ vec' = Calm(r.vec)
  /\ ret' = [Call("CopyFrom", dst) EXCEPT !.err = r.err]
  /\ panicked' = r.panic

CopyFrom(dst, src, io) ==
  /\ Running
  /\ CopyFromReturned(dst, BigBitVector_CopyFrom(UnderAll(vec, io), dst, src))
  /\ UNCHANGED <<iter, writes, shadow, writer>>

(***************************************************************************)
(* Freeze() and Close() of a vector.                                       *)
(***************************************************************************)
Freeze(v, io) ==
  /\ Running
  /\ \E r \in {BigBitVector_Freeze(Under(vec[v], io))} :
       /\ vec' = Calm([vec EXCEPT ![v] = r.bv])
       /\ ret' = [Call("Freeze", v) EXCEPT !.err = r.err]
  /\ UNCHANGED <<iter, panicked, writes, shadow, writer>>

\* Flush() of vector v.
VectorFlush(v, io) ==
  /\ Running
  /\ \E r \in {BigBitVector_Flush(Under(vec[v], io))} :
       /\ vec' = Calm([vec EXCEPT ![v] = r.bv])
       /\ ret' = [Call("VectorFlush", v) EXCEPT !.err = r.err]
  /\ UNCHANGED <<iter, panicked, writes, shadow, writer>>

\* Close() of vector v; no call is made on a vector after its Close().
VectorClose(v) ==
  /\ Running
  /\ ret.op # "VectorClose"
  /\ \E r \in {BigBitVector_Close(vec[v])} :
       /\ ret' = [Call("VectorClose", v) EXCEPT !.err = r.err]
       /\ panicked' = r.panic
  /\ UNCHANGED <<vec, iter, writes, shadow, writer>>

(***************************************************************************)
(* Spec: one vector of either backend, one iterator on it, and a store     *)
(* that may fail.  SpecCalm: the same with a store that never fails.       *)
(***************************************************************************)
Init ==
  \E kind \in {"mem", "disk"}, content \in Contents :
    InitWith([v \in VecIds |-> IF v = 1 THEN kind ELSE "nil"],
             [v \in VecIds |-> content], NoHist)

\* The ranges the callers iterate over: two bits of the first byte followed by
\* the first bit of the next page, an empty range, and one with i > j.
Ranges == {<<BitsPerByte - 2, BitsPerByte + 1>>, <<0, 0>>, <<2, 0>>}
\* The indices of BitAt and SetBitAt: the last two bits of the first byte, the
\* first bit of the second byte, and the first index out of range.
Indices == {BitsPerByte - 2, BitsPerByte - 1, BitsPerByte, NumBits}
\* The lengths of Truncate: inside the first byte, inside the second, and
\* above the length at construction.
Lengths == {BitsPerByte - 1, BitsPerByte + 1, NumBits + 1}

\* The faults a call on vector v can meet, out of F: an in-memory vector does
\* no I/O.  BitAt writes nothing; an iterator's Flush and Close read nothing.
FaultsOf(v, F) == IF vec[v].kind = "disk" THEN F ELSE {NoFault}
ReadFaultsOf(v, F) == FaultsOf(v, F) \ {WriteFault}
WriteFaultsOf(v, F) == FaultsOf(v, F) \ {ReadFault}

NextWith(F) ==
  \/ \E i \in Indices, io \in ReadFaultsOf(1, F) :
       BitAt(1, i, io) /\ UNCHANGED hist
  \/ \E i \in Indices, bit \in BOOLEAN, order \in CacheOrders(vec[1]),
        io \in FaultsOf(1, F) :
       SetBitAt(1, i, bit, order, io) /\ UNCHANGED hist
  \/ \E m \in Lengths : Truncate(1, m) /\ UNCHANGED hist
  \/ \E r \in Ranges, down \in BOOLEAN :
       Iterate(1, 1, r[1], r[2], down) /\ UNCHANGED hist
  \/ \E io \in FaultsOf(1, F) : Next(1, io) /\ UNCHANGED hist
  \/ \E n \in SkipArgs, io \in FaultsOf(1, F) : Skip(1, n, io) /\ UNCHANGED hist
  \/ \E bit \in BOOLEAN : SetBit(1, bit) /\ UNCHANGED hist
  \/ \E io \in WriteFaultsOf(1, F) : Flush(1, io) /\ UNCHANGED hist
  \/ \E io \in WriteFaultsOf(1, F) : Close(1, io) /\ UNCHANGED hist

NextFaulty == NextWith(Faults)
NextCalm == NextWith({NoFault})

Spec == Init /\ [][NextFaulty]_vars
SpecCalm == Init /\ [][NextCalm]_vars

(***************************************************************************)
(* SpecIter: two iterators over the same range of one vector, in the same  *)
(* direction.  The first is advanced by Next() only; the second, fresh,    *)
(* makes one Skip(n) with any n from 1 to the largest unsigned word.  The  *)
(* vector may be truncated before the iterators are created.               *)
(***************************************************************************)
InitIter ==
  \E kind \in {"mem", "disk"} :
    InitWith([v \in VecIds |-> IF v = 1 THEN kind ELSE "nil"],
             [v \in VecIds |-> Pattern], NoWalk)

\* The indices the ranges start and end at: the start, inside the first
\* byte, the last bit of the first byte, inside the second byte, the end.
Cuts == {0, 2, BitsPerByte - 1, BitsPerByte + 1, NumBits}

NextIter ==
  \/ \E m \in Lengths :
       /\ iter[1].kind = "none"
       /\ Truncate(1, m)
       /\ UNCHANGED hist
  \/ \E i \in Cuts, j \in Cuts, down \in BOOLEAN :
       /\ i <= j
       /\ Iterate(1, 1, i, j, down)
       /\ hist' = [hist EXCEPT !.i = i, !.j = j, !.down = down]
  \/ /\ iter[1].kind # "none"
     /\ Iterate(2, 1, hist.i, hist.j, hist.down)
     /\ UNCHANGED hist
  \/ /\ hist.nexts < MaxUint
     /\ Next(1, NoFault)
     /\ hist' = [hist EXCEPT !.nexts = @ + 1, !.walk = ret'.val]
  \/ \E n \in 1..MaxUint :
       /\ hist.skipped = 0
       /\ Skip(2, n, NoFault)
       /\ hist' = [hist EXCEPT !.skipped = n, !.jump = ret'.val]

SpecIter == InitIter /\ [][NextIter]_vars

\* The index the first iterator is at after its c-th Next() returned true.
Visited(c) == IF hist.down THEN hist.j - c ELSE hist.i + (c - 1)

\* C2: on either backend and for every 0 <= i <= j <= Len(), the c-th Next()
\* on Iterate(i, j) returns true with Index() = i + c - 1 when c <= j - i and
\* false when c > j - i; on ReverseIterate(i, j) the same with Index() = j - c;
\* whenever it returns true, Bit() is the vector's bit at Index(); no call
\* panics.
C2_NextVisitsRangeInOrder ==
  (ret.op = "Next" /\ ret.id = 1) =>
    /\ panicked = ""
    /\ ret.val = (hist.nexts <= hist.j - hist.i)
    /\ ret.val =>
         /\ Iterator_Index(iter[1]) = [val |-> Visited(hist.nexts), panic |-> ""]
         /\ Iterator_Bit(iter[1]) =
              [val |-> BigBitVector_BitAt(vec[1], Visited(hist.nexts)).val,
               panic |-> ""]

\* The third Next() on ReverseIterate(7, 9) of a disk vector returned false,
\* after the first two crossed from the second page to the first.
C2_Witness ==
  /\ ret.op = "Next" /\ ret.id = 1 /\ ~ret.val /\ panicked = ""
  /\ iter[1].kind = "disk" /\ hist.down
  /\ hist.i = BitsPerByte - 1 /\ hist.j = BitsPerByte + 1
  /\ hist.nexts = 3

\* C3: on either backend, in either direction and for every range and every
\* n >= 1, Skip(n) on a fresh iterator returns what the n-th Next() on another
\* fresh iterator over the same range returns, and when that is true both
\* iterators report the same Index() and Bit(); neither panics.
C3_SkipIsRepeatedNext ==
  (hist.skipped >= 1 /\ hist.nexts = hist.skipped) =>
    /\ panicked = ""
    /\ hist.jump = hist.walk
    /\ hist.jump =>
         /\ Iterator_Index(iter[2]) = Iterator_Index(iter[1])
         /\ Iterator_Bit(iter[2]) = Iterator_Bit(iter[1])

\* C20: on either backend and in either direction, whenever Skip(n), for any
\* n from 1 to the largest unsigned word, returns true on a fresh iterator
\* over [i, j), Index() returns an index in [i, j).
C20_SkipStaysInRange ==
  (hist.skipped >= 1 /\ hist.jump /\ panicked = "") =>
    /\ Iterator_Index(iter[2]).panic = ""
    /\ hist.i <= Iterator_Index(iter[2]).val
    /\ Iterator_Index(iter[2]).val < hist.j

(***************************************************************************)
(* Properties of Spec.                                                     *)
(***************************************************************************)
\* The indices below the length of vector v.
InRange(v) == {k \in AllBits : k < BigBitVector_Len(vec[v])}

\* C1: on either backend, in every reachable state of a non-frozen vector of
\* length N, for every index i < N and every value bit, a SetBitAt(i, bit)
\* that meets no I/O failure returns nil without a panic; BitAt(i) on the
\* resulting vector returns bit, and BitAt(k) returns what it returned before
\* the call for every other k < N.
C1_SetBitAtThenBitAt ==
  [][ret'.op = "SetBitAt" =>
     \A i \in Indices, bit \in BOOLEAN, order \in CacheOrders(vec[1]) :
       (/\ SetBitAt(1, i, bit, order, NoFault)
        /\ ~vec[1].ro
        /\ i < BigBitVector_Len(vec[1]))
       => /\ ret'.err = Nil
          /\ panicked' = ""
          /\ BigBitVector_BitAt(vec'[1], i) = [val |-> bit, err |-> Nil]
          /\ \A k \in InRange(1) \ {i} :
               BigBitVector_BitAt(vec'[1], k) = BigBitVector_BitAt(vec[1], k)]_vars

\* A disk vector after SetBitAt(6, TRUE) and SetBitAt(7, FALSE) both returned
\* nil while an iterator holds a page: bit 6 was clear and bit 7 set at first.
C1_Witness ==
  /\ ret.op = "SetBitAt" /\ ret.err = Nil /\ panicked = ""
  /\ vec[1].kind = "disk" /\ DOMAIN vec[1].cache # {}
  /\ writes = 2
  /\ BigBitVector_BitAt(vec[1], BitsPerByte - 2).val
  /\ ~BigBitVector_BitAt(vec[1], BitsPerByte - 1).val
  /\ BigBitVector_BitAt(vec[1], BitsPerByte).val

\* No iterator is live: the caller holds none, or has closed it.
NoLiveIterator ==
  \A x \in IterIds : iter[x].kind = "none" \/ iter[x].err = ErrClosedIterator

\* C10: on either backend, for a non-frozen vector with no live iterator and
\* every m <= Len(), Truncate(m) returns nil without a panic, Len() is then m,
\* BitAt(k) returns what it returned before for every k < m and io.EOF (out of
\* range) for every k >= m; and no step of any operation increases Len().
C10_Truncate ==
  [][/\ BigBitVector_Len(vec'[1]) <= BigBitVector_Len(vec[1])
     /\ ret'.op = "Truncate" => \A m \in Lengths :
          (/\ Truncate(1, m)
           /\ m <= BigBitVector_Len(vec[1])
           /\ ~vec[1].ro
           /\ NoLiveIterator)
          => /\ panicked' = "" /\ ret'.err = Nil
             /\ BigBitVector_Len(vec'[1]) = m
             /\ \A k \in AllBits :
                  IF k < m
                  THEN BigBitVector_BitAt(vec'[1], k) = BigBitVector_BitAt(vec[1], k)
                  ELSE BigBitVector_BitAt(vec'[1], k) = [val |-> FALSE, err |-> EOF]]_vars

\* A disk vector cut from ten bits to nine and then to seven, which drops its
\* second byte, after its iterator wrote a bit and was closed.
C10_Witness ==
  /\ ret.op = "Truncate" /\ panicked = ""
  /\ vec[1].kind = "disk"
  /\ BigBitVector_Len(vec[1]) = BitsPerByte - 1
  /\ Len(vec[1].f) = 1
  /\ iter[1].kind = "disk" /\ iter[1].err = ErrClosedIterator
  /\ writer[BitsPerByte - 2] = 1

\* The iterator x has been closed.
Closed(x) == iter[x].kind # "none" /\ iter[x].err = ErrClosedIterator
\* The disk iterator x holds a page with writes that have not reached the store.
HoldsDirtyPage(x) ==
  /\ iter[x].kind = "disk" /\ iter[x].page # NoPage
  /\ vec[iter[x].bv].cache[iter[x].page].dirty

\* C8: when a disk iterator holds a dirty page and the store's write of that
\* page fails during Close(), Close() returns the I/O error as its error
\* value, the program does not panic, and the iterator is closed afterwards.
C8_CloseReturnsWriteError ==
  [][(HoldsDirtyPage(1) /\ Close(1, WriteFault))
     => /\ panicked' = ""
        /\ ret'.err = EIO
        /\ iter'[1] = ClosedDiskIterator]_vars

C5_IteratorObservesLatestWrite ==
  (/\ ret.op \in {"Next", "Skip"} /\ ret.val /\ panicked = ""
   /\ iter[ret.id].kind = "disk")
  => Iterator_Bit(iter[ret.id]).val = shadow[Iterator_Index(iter[ret.id]).val]

\* C6: after a disk iterator's Close() returned nil, every bit whose latest
\* write was that iterator's SetBit has the written value in the store.
C6_IteratorWritesReachStore ==
  (/\ ret.op = "Close" /\ ret.err = Nil /\ panicked = ""
   /\ iter[ret.id].kind = "disk")
  => \A k \in AllBits :
       writer[k] = ret.id => StoredBit(vec[1], k) = shadow[k]

(***************************************************************************)
(* SpecCopy: vector 1 (all zero at first) and vector 2 (the pattern), each *)
(* of either backend.  The callers write bits of both, truncate both and   *)
(* copy vector 2 into vector 1; the store may fail during the copy.        *)
(***************************************************************************)
InitCopy ==
  \E kinds \in [VecIds -> {"mem", "disk"}] :
    InitWith(kinds,
             [v \in VecIds |-> IF v = 1 THEN Zeros(NumBytes(NumBits)) ELSE Pattern],
             NoHist)

NextCopy ==
  \/ \E v \in VecIds, i \in Indices, bit \in BOOLEAN :
       \E order \in CacheOrders(vec[v]) :
         SetBitAt(v, i, bit, order, NoFault) /\ UNCHANGED hist
  \/ \E v \in VecIds, m \in Lengths : Truncate(v, m) /\ UNCHANGED hist
  \/ \E io \in Faults : CopyFrom(1, 2, io) /\ UNCHANGED hist

SpecCopy == InitCopy /\ [][NextCopy]_vars

\* C4: for each pairing of backends, when B.CopyFrom(A) on vectors of equal
\* length N (B not frozen) returns nil, BitAt(k) on B returns what BitAt(k) on
\* A returned before the call, and BitAt(k) on A returns the same as before,
\* for every k < N; and when both are in-memory, B's bits are those that the
\* iterator-based copy (copyFromImpl) would have produced.
C4_CopyFrom ==
  [][(/\ ret'.op = "CopyFrom" /\ ret'.err = Nil /\ panicked' = ""
      /\ \E io \in Faults : CopyFrom(1, 2, io))
     => /\ BigBitVector_Len(vec[1]) = BigBitVector_Len(vec[2])
        /\ \A k \in InRange(2) :
             /\ BigBitVector_BitAt(vec'[1], k) = BigBitVector_BitAt(vec[2], k)
             /\ BigBitVector_BitAt(vec'[2], k) = BigBitVector_BitAt(vec[2], k)
        /\ (vec[1].kind = "mem" /\ vec[2].kind = "mem") =>
             \A k \in InRange(2) :
               BigBitVector_BitAt(vec'[1], k) =
                 BigBitVector_BitAt(copyFromImpl(vec, 1, 2).vec[1], k)]_vars

\* Vector 2 (in-memory, truncated to nine bits, bit 7 cleared) was copied into
\* the disk vector 1 of nine bits, and CopyFrom returned nil.
C4_Witness ==
  /\ ret.op = "CopyFrom" /\ ret.err = Nil /\ panicked = ""
  /\ vec[1].kind = "disk" /\ vec[2].kind = "mem"
  /\ BigBitVector_Len(vec[1]) = BitsPerByte + 1
  /\ BigBitVector_BitAt(vec[1], 0).val
  /\ ~BigBitVector_BitAt(vec[1], BitsPerByte - 1).val
  /\ BigBitVector_BitAt(vec[1], BitsPerByte).val

(***************************************************************************)
(* SpecEquiv: an in-memory vector (1) and a disk vector (2) with the same  *)
(* bits; iterator 1 on the first and iterator 2 on the second are created  *)
(* over the same range and direction and receive the same legal calls.     *)
(* hist holds what the last call returned on each.                         *)
(***************************************************************************)
Both(a, b) == [mem |-> a, disk |-> b]

InitEquiv ==
  InitWith([v \in VecIds |-> IF v = 1 THEN "mem" ELSE "disk"],
           [v \in VecIds |-> Pattern], Both("New", "New"))

\* The calls Index(), Bit() and SetBit() are legal while the iterator is
\* active: its last Next() or Skip() returned true.
Active ==
  /\ iter[1].kind = "mem" /\ iter[1].err = Nil
  /\ iter[1].primed /\ iter[1].pos < iter[1].num
Open == iter[1].kind = "mem" /\ iter[1].err # ErrClosedIterator

\* The first panic of the two calls.
Either(a, b) == IF a # "" THEN a ELSE b

BothIterated(op, a, b) ==
  /\ iter' = [x \in IterIds |-> IF x = 1 THEN a.it ELSE b.it]
  /\ ret' = Call(op, 0)
  /\ panicked' = Either(a.panic, b.panic)
  /\ hist' = Both(a.panic, b.panic)

IterateBoth(i, j, down) ==
  /\ Running
  /\ iter[1].kind = "none"
  /\ i <= j /\ j <= BigBitVector_Len(vec[1])
  /\ IF down
     THEN BothIterated("ReverseIterate", BigBitVector_ReverseIterate(vec, 1, i, j),
                       BigBitVector_ReverseIterate(vec, 2, i, j))
     ELSE BothIterated("Iterate", BigBitVector_Iterate(vec, 1, i, j),
                       BigBitVector_Iterate(vec, 2, i, j))
  /\ UNCHANGED <<vec, writes, shadow, writer>>

BothMoved(op, a, b) ==
  /\ vec' = [v \in VecIds |-> IF v = 1 THEN a.vec[1] ELSE b.vec[2]]
  /\ iter' = [x \in IterIds |-> IF x = 1 THEN a.it ELSE b.it]
  /\ ret' = Call(op, 0)
  /\ panicked' = Either(a.panic, b.panic)
  /\ hist' = Both([val |-> a.ok, panic |-> a.panic],
                  [val |-> b.ok, panic |-> b.panic])

NextBoth ==
  /\ Running /\ Open
  /\ BothMoved("Next", Iterator_Next(vec, iter[1]), Iterator_Next(vec, iter[2]))
  /\ UNCHANGED <<writes, shadow, writer>>

SkipBoth(n) ==
  /\ Running /\ Open
  /\ BothMoved("Skip", Iterator_Skip(vec, iter[1], n), Iterator_Skip(vec, iter[2], n))
  /\ UNCHANGED <<writes, shadow, writer>>

BothAsked(op, a, b) ==
  /\ ret' = Call(op, 0)
  /\ panicked' = Either(a.panic, b.panic)
  /\ hist' = Both(a, b)

IndexBoth ==
  /\ Running /\ Active
  /\ BothAsked("Index", Iterator_Index(iter[1]), Iterator_Index(iter[2]))
  /\ UNCHANGED <<vec, iter, writes, shadow, writer>>

BitBoth ==
  /\ Running /\ Active
  /\ BothAsked("Bit", Iterator_Bit(iter[1]), Iterator_Bit(iter[2]))
  /\ UNCHANGED <<vec, iter, writes, shadow, writer>>

BothWritten(a, b) ==
  /\ vec' = [v \in VecIds |-> IF v = 1 THEN a.vec[1] ELSE b.vec[2]]
  /\ iter' = [x \in IterIds |-> IF x = 1 THEN a.it ELSE b.it]
  /\ ret' = Call("SetBit", 0)
  /\ panicked' = Either(a.panic, b.panic)
  /\ hist' = Both(a.panic, b.panic)

SetBitBoth(bit) ==
  /\ Running /\ Active
  /\ writes < MaxWrites
  /\ BothWritten(Iterator_SetBit(vec, iter[1], bit), Iterator_SetBit(vec, iter[2], bit))
  /\ writes' = writes + 1
  /\ UNCHANGED <<shadow, writer>>

BothClosed(a, b) ==
  /\ vec' = [v \in VecIds |-> IF v = 1 THEN a.vec[1] ELSE b.vec[2]]
  /\ iter' = [x \in IterIds |-> IF x = 1 THEN a.it ELSE b.it]
  /\ ret' = Call("Close", 0)
  /\ panicked' = Either(a.panic, b.panic)
  /\ hist' = Both([err |-> a.err, panic |-> a.panic],
                  [err |-> b.err, panic |-> b.panic])

CloseBoth ==
  /\ Running /\ Open
  /\ BothClosed(Iterator_Close(vec, iter[1]), Iterator_Close(vec, iter[2]))
  /\ UNCHANGED <<writes, shadow, writer>>

NextEquiv ==
  \/ \E i \in Cuts, j \in Cuts, down \in BOOLEAN : IterateBoth(i, j, down)
  \/ NextBoth
  \/ \E n \in SkipArgs \ {0} : SkipBoth(n)
  \/ IndexBoth
  \/ BitBoth
  \/ \E bit \in BOOLEAN : SetBitBoth(bit)
  \/ CloseBoth

SpecEquiv == InitEquiv /\ [][NextEquiv]_vars

\* C7: for the same initial bits, range and direction, every legal call
\* (Next, Skip(n >= 1), and while active Index, Bit and SetBit, then Close)
\* returns the same on the in-memory and on the disk iterator; in particular
\* Bit() right after SetBit(v) returns v on both.
C7_SameResults == hist.mem = hist.disk

(***************************************************************************)
(* Further properties of Spec: usage violations and the page an iterator   *)
(* holds.                                                                  *)
(***************************************************************************)
\* C11: on either backend, a Truncate(m) called while an iterator is live
\* (created and not closed, primed or not, holding a page or not) or while a
\* cache page is outstanding panics and leaves the length and the stored
\* bytes as they are.
C11_TruncateRejected ==
  [][\A m \in Lengths :
       (/\ Truncate(1, m)
        /\ \/ ~NoLiveIterator
           \/ vec[1].kind = "disk" /\ DOMAIN vec[1].cache # {})
       => /\ panicked' # ""
          /\ BigBitVector_Len(vec'[1]) = BigBitVector_Len(vec[1])
          /\ Bytes(vec'[1]) = Bytes(vec[1])]_vars

\* C13: on either backend, right after an iterator is created (unprimed) and
\* right after its Next() or Skip() returned false (exhausted), Index() and
\* Bit() panic instead of returning a value.
C13_IndexAndBitRejected ==
  (/\ panicked = ""
   /\ \/ ret.op \in {"Iterate", "ReverseIterate"}
      \/ ret.op \in {"Next", "Skip"} /\ ~ret.val)
  => /\ Iterator_Index(iter[ret.id]).panic # ""
     /\ Iterator_Bit(iter[ret.id]).panic # ""

\* C19: whenever Next() or Skip() of a disk iterator has returned false, the
\* iterator holds no page.
C19_ExhaustedHoldsNoPage ==
  (/\ panicked = ""
   /\ ret.op \in {"Next", "Skip"} /\ ~ret.val
   /\ iter[ret.id].kind = "disk")
  => iter[ret.id].page = NoPage

\* C16: in every reachable state of a disk vector, every cached page that is
\* not dirty holds the bytes the store holds for its window.
C16_CacheCoherent ==
  vec[1].kind = "disk" =>
    \A off \in DOMAIN vec[1].cache :
      ~vec[1].cache[off].dirty =>
        vec[1].cache[off].data = ReadAt(vec[1], PageSize, off).data

\* C18: a disk iterator holds at most one page: with one iterator, the cache
\* holds no page but the iterator's, with reference count 1.  When Next() or
\* Skip() returns true, the held page is the page of Index().  When the call
\* leaves the page p it held, p is gone from the cache, and the store holds
\* p's bytes if p was dirty.  When the store's writes fail during the call and
\* the iterator holds a dirty page, the call acquires no other page and
\* leaves the cache as it is: it returns true on the same page, or false at
\* the bound, or false with the write error as the iterator's error.
C18_PageSwap ==
  [][/\ vec'[1].kind = "disk" =>
          /\ DOMAIN vec'[1].cache \subseteq
               (IF iter'[1].kind = "disk" THEN {iter'[1].page} ELSE {})
          /\ \A off \in DOMAIN vec'[1].cache : vec'[1].cache[off].refcnt = 1
     /\ (/\ iter[1].kind = "disk" /\ iter[1].page # NoPage
         /\ ret'.op \in {"Next", "Skip"} /\ panicked' = "")
        => /\ ret'.val =>
                PageOffset(onDiskIterator_Index(iter'[1])) = iter'[1].page
           /\ iter'[1].page # iter[1].page =>
                /\ iter[1].page \notin DOMAIN vec'[1].cache
                /\ vec[1].cache[iter[1].page].dirty =>
                     ReadAt(vec'[1], PageSize, iter[1].page).data =
                       vec[1].cache[iter[1].page].data
           /\ (/\ HoldsDirtyPage(1) /\ iter[1].err = Nil
               /\ \/ Next(1, WriteFault)
                  \/ \E n \in SkipArgs : Skip(1, n, WriteFault))
              => /\ iter'[1].page = iter[1].page
                 /\ vec'[1].cache = vec[1].cache
                 /\ ~ret'.val =>
                      \/ iter'[1].err = Nil /\ iter'[1].pos = iter'[1].end
                      \/ iter'[1].err = EIO]_vars

\* The reverse iterator over [6, 9) read bit 8, wrote it, and its Next()
\* towards bit 7 failed to flush the page at offset 1: it still holds that
\* page, dirty, and carries the write error.
C18_Witness ==
  /\ ret.op = "Next" /\ ~ret.val /\ panicked = ""
  /\ iter[1].kind = "disk" /\ iter[1].down /\ iter[1].err = EIO
  /\ iter[1].page = 1 /\ vec[1].cache[1].dirty
  /\ DOMAIN vec[1].cache = {1}

(***************************************************************************)
(* SpecFreeze: vector 1 of either backend with one iterator on it, and the *)
(* in-memory vector 2 as the source of CopyFrom.  Vector 1 is read,        *)
(* written, truncated and frozen while the iterator moves, writes and      *)
(* closes; the store may fail the writes of Freeze().                      *)
(***************************************************************************)
InitFreeze ==
  \E kind \in {"mem", "disk"} :
    InitWith([v \in VecIds |-> IF v = 1 THEN kind ELSE "mem"],
             [v \in VecIds |-> Pattern], NoHist)

NextFreeze ==
  \/ \E i \in Indices : BitAt(1, i, NoFault) /\ UNCHANGED hist
  \/ \E i \in Indices, bit \in BOOLEAN, order \in CacheOrders(vec[1]) :
       SetBitAt(1, i, bit, order, NoFault) /\ UNCHANGED hist
  \/ \E m \in Lengths : Truncate(1, m) /\ UNCHANGED hist
  \/ \E down \in BOOLEAN :
       Iterate(1, 1, BitsPerByte - 2, BitsPerByte + 1, down) /\ UNCHANGED hist
  \/ Next(1, NoFault) /\ UNCHANGED hist
  \/ \E bit \in BOOLEAN : SetBit(1, bit) /\ UNCHANGED hist
  \/ Close(1, NoFault) /\ UNCHANGED hist
  \/ \E io \in WriteFaultsOf(1, Faults) : Freeze(1, io) /\ UNCHANGED hist
  \/ CopyFrom(1, 2, NoFault) /\ UNCHANGED hist

SpecFreeze == InitFreeze /\ [][NextFreeze]_vars

(***************************************************************************)
(* SpecPages: one vector with two iterators on it, which move, write,      *)
(* flush and close in any order, until the vector is closed.  The store    *)
(* may fail the reads of Next() and the writes of the vector's Flush().    *)
(***************************************************************************)
NextPages ==
  \/ \E x \in IterIds, down \in BOOLEAN :
       /\ ret.op # "VectorClose"
       /\ Iterate(x, 1, BitsPerByte - 2, BitsPerByte + 1, down)
       /\ UNCHANGED hist
  \/ \E x \in IterIds, io \in ReadFaultsOf(1, Faults) :
       ret.op # "VectorClose" /\ Next(x, io) /\ UNCHANGED hist
  \/ \E x \in IterIds, bit \in BOOLEAN :
       ret.op # "VectorClose" /\ SetBit(x, bit) /\ UNCHANGED hist
  \/ \E x \in IterIds : ret.op # "VectorClose" /\ Flush(x, NoFault) /\ UNCHANGED hist
  \/ \E x \in IterIds : ret.op # "VectorClose" /\ Close(x, NoFault) /\ UNCHANGED hist
  \/ \E io \in FlushFaults :
       ret.op # "VectorClose" /\ VectorFlush(1, io) /\ UNCHANGED hist
  \/ VectorClose(1) /\ UNCHANGED hist

SpecPages == Init /\ [][NextPages]_vars

\* C12: on either backend, Freeze() makes Frozen() true, also when it returns
\* an error, and no step makes it false again.  On a frozen vector every
\* SetBitAt, Truncate, CopyFrom into the vector and SetBit of an iterator
\* (opened before or after the freeze) panics and leaves the vectors as they
\* are; BitAt(k) returns the stored bit for every k < Len(); Next() does what
\* it does on the same vector not frozen, and when it returns true, Bit() is
\* the stored bit at Index().
C12_Frozen ==
  [][/\ ret'.op = "Freeze" => BigBitVector_Frozen(vec'[1])
     /\ BigBitVector_Frozen(vec[1]) =>
          /\ BigBitVector_Frozen(vec'[1])
          /\ ret'.op \in {"SetBitAt", "Truncate", "CopyFrom", "SetBit"} =>
               panicked' # "" /\ vec' = vec
          /\ \A k \in InRange(1) :
               BigBitVector_BitAt(vec[1], k) =
                 [val |-> StoredBit(vec[1], k), err |-> Nil]
          /\ Next(1, NoFault) =>
               /\ iter'[1] =
                    Iterator_Next([vec EXCEPT ![1].ro = FALSE], iter[1]).it
               /\ panicked' =
                    Iterator_Next([vec EXCEPT ![1].ro = FALSE], iter[1]).panic
               /\ (ret'.val /\ panicked' = "") =>
                    Iterator_Bit(iter'[1]).val =
                      StoredBit(vec'[1], Iterator_Index(iter'[1]).val)]_vars

\* A disk vector was frozen after its iterator had set bit 6, which Freeze()
\* flushed to the store; the iterator's next SetBit() then panicked.
C12_Witness ==
  /\ ret.op = "SetBit" /\ panicked = "BigArray is read-only"
  /\ vec[1].kind = "disk" /\ BigBitVector_Frozen(vec[1])
  /\ writer[BitsPerByte - 2] = 1
  /\ StoredBit(vec[1], BitsPerByte - 2)
  /\ iter[1].page # NoPage

\* C15, as amended: on either backend and for every index i >= Len() (also
\* after a Truncate), BitAt(i) returns io.EOF and, on a vector that is not
\* frozen, SetBitAt(i, v) returns io.EOF; neither panics, does any I/O or
\* changes the vector, its store or its page cache.
C15_OutOfRange ==
  [][\A i \in Indices :
       i >= BigBitVector_Len(vec[1]) =>
         /\ \A io \in Faults :
              BigBitVector_BitAt(Under(vec[1], io), i) = [val |-> FALSE, err |-> EOF]
         /\ BitAt(1, i, NoFault) =>
              ret'.err = EOF /\ ~ret'.val /\ panicked' = "" /\ vec' = vec
         /\ ~BigBitVector_Frozen(vec[1]) =>
              \A bit \in BOOLEAN, order \in CacheOrders(vec[1]) :
                /\ \A io \in Faults :
                     BigBitVector_SetBitAt(Under(vec[1], io), i, bit, order) =
                       [bv |-> Under(vec[1], io), err |-> EOF, panic |-> ""]
                /\ SetBitAt(1, i, bit, order, NoFault) =>
                     ret'.err = EOF /\ panicked' = "" /\ vec' = vec]_vars

\* C15 as stated: the same for SetBitAt on every vector, frozen or not.
C15_OutOfRangeAlways ==
  [][\A i \in Indices :
       i >= BigBitVector_Len(vec[1]) =>
         /\ \A io \in Faults :
              BigBitVector_BitAt(Under(vec[1], io), i) = [val |-> FALSE, err |-> EOF]
         /\ BitAt(1, i, NoFault) =>
              ret'.err = EOF /\ ~ret'.val /\ panicked' = "" /\ vec' = vec
         /\ \A bit \in BOOLEAN, order \in CacheOrders(vec[1]) :
              /\ \A io \in Faults :
                   BigBitVector_SetBitAt(Under(vec[1], io), i, bit, order) =
                     [bv |-> Under(vec[1], io), err |-> EOF, panic |-> ""]
              /\ SetBitAt(1, i, bit, order, NoFault) =>
                   ret'.err = EOF /\ panicked' = "" /\ vec' = vec]_vars

\* SetBitAt returned io.EOF on a disk vector truncated to nine bits whose
\* iterator holds a page.
C15_Witness ==
  /\ ret.op = "SetBitAt" /\ ret.err = EOF /\ panicked = ""
  /\ vec[1].kind = "disk" /\ BigBitVector_Len(vec[1]) = BitsPerByte + 1
  /\ DOMAIN vec[1].cache # {}

(***************************************************************************)
(* Properties of SpecPages.                                                *)
(***************************************************************************)
\* C14: Close() of a disk vector panics exactly when its cache holds a page;
\* and whenever every iterator opened on the vector has been closed, the
\* cache is empty, so that Close() returns without a panic.
C14_VectorClose ==
  [][vec[1].kind = "disk" =>
       /\ VectorClose(1) => (panicked' # "" <=> DOMAIN vec[1].cache # {})
       /\ NoLiveIterator => DOMAIN vec[1].cache = {}
       /\ (\A x \in IterIds : iter'[x].kind = "none"
                              \/ iter'[x].err = ErrClosedIterator)
          => DOMAIN vec'[1].cache = {}]_vars

\* Close() of a disk vector returned after both of its iterators, one of which
\* had written bit 6, were closed.
C14_Witness ==
  /\ ret.op = "VectorClose" /\ panicked = ""
  /\ vec[1].kind = "disk"
  /\ \A x \in IterIds : iter[x].kind = "disk" /\ iter[x].err = ErrClosedIterator
  /\ writer[BitsPerByte - 2] = 1

\* C17: in every reachable state of a disk vector, every cached page is at a
\* page-aligned offset, its reference count is the number of iterators that
\* hold it and at least 1, and every page an iterator holds is in the cache.
\* A Next() that moves to a page already in the cache does, while the store
\* fails every read, what it does on a healthy store: it returns the cached
\* page, with its bytes as they are and its count raised by one.
C17_ReferenceCounts ==
  [][vec[1].kind = "disk" =>
       /\ \A off \in DOMAIN vec'[1].cache :
            /\ off % PageSize = 0
            /\ vec'[1].cache[off].refcnt >= 1
            /\ vec'[1].cache[off].refcnt =
                 Cardinality({x \in IterIds : /\ iter'[x].kind = "disk"
                                              /\ iter'[x].page = off})
       /\ \A x \in IterIds :
            (iter'[x].kind = "disk" /\ iter'[x].page # NoPage)
            => iter'[x].page \in DOMAIN vec'[1].cache
       /\ \A x \in IterIds :
            (/\ Next(x, ReadFault)
             /\ Iterator_Next(vec, iter[x]).it.page \in DOMAIN vec[1].cache
             /\ Iterator_Next(vec, iter[x]).it.page # iter[x].page)
            => /\ iter'[x] = Iterator_Next(vec, iter[x]).it
               /\ vec' = Iterator_Next(vec, iter[x]).vec
               /\ ret'.val /\ panicked' = ""
               /\ vec'[1].cache[iter'[x].page] =
                    [vec[1].cache[iter'[x].page] EXCEPT !.refcnt = @ + 1]]_vars

\* Both iterators hold the page at offset 0, which one of them has written:
\* its reference count is 2.
C17_Witness ==
  /\ ret.op = "Next" /\ ret.val /\ panicked = ""
  /\ vec[1].kind = "disk"
  /\ 0 \in DOMAIN vec[1].cache
  /\ vec[1].cache[0].refcnt = 2 /\ vec[1].cache[0].dirty
  /\ iter[1].page = 0 /\ iter[2].page = 0

\* The cached pages of vector 1 that are dirty, and those of them whose
\* write fails under io.
DirtyPages == {off \in DOMAIN vec[1].cache : vec[1].cache[off].dirty}
FailingPages(io) ==
  {off \in DirtyPages :
     \E o \in off..(off + Len(vec[1].cache[off].data) - 1) : o \in io.wbad}

\* C22: Flush() of a disk vector writes every dirty cached page, also after
\* the write of another page failed: a dirty page whose write succeeds is
\* clean afterwards and the store holds its bytes, a dirty page whose write
\* fails stays dirty and the store keeps its bytes there, a clean page stays
\* clean; no page leaves the cache or changes its bytes or its count.  Flush()
\* returns nil exactly when no page write failed and the store's own flush,
\* where it has one, did not fail, and the store's error otherwise.
C22_Flush ==
  [][\A io \in FlushFaults :
       (ret'.op = "VectorFlush" /\ vec[1].kind = "disk" /\ VectorFlush(1, io)) =>
         /\ panicked' = ""
         /\ DOMAIN vec'[1].cache = DOMAIN vec[1].cache
         /\ \A off \in DOMAIN vec[1].cache :
              /\ vec'[1].cache[off].data = vec[1].cache[off].data
              /\ vec'[1].cache[off].refcnt = vec[1].cache[off].refcnt
              /\ vec'[1].cache[off].dirty = (off \in FailingPages(io))
         /\ \A off \in DirtyPages \ FailingPages(io) :
              SubSeq(vec'[1].f, off + 1, off + Len(vec[1].cache[off].data))
                = vec[1].cache[off].data
         /\ \A off \in (DOMAIN vec[1].cache \ DirtyPages) \cup FailingPages(io) :
              SubSeq(vec'[1].f, off + 1, off + Len(vec[1].cache[off].data))
                = SubSeq(vec[1].f, off + 1, off + Len(vec[1].cache[off].data))
         /\ Len(vec'[1].f) = Len(vec[1].f)
         /\ ret'.err = (IF FailingPages(io) = {} /\ ~io.sfail THEN Nil ELSE EIO)]_vars

\* Flush() of a disk vector returned the store's error with two pages cached:
\* the page at offset 0 is still dirty, the page at offset PageSize is clean
\* and the store holds what an iterator wrote to it.
C22_Witness ==
  /\ ret.op = "VectorFlush" /\ ret.err = EIO /\ panicked = ""
  /\ vec[1].kind = "disk"
  /\ DOMAIN vec[1].cache = {0, PageSize}
  /\ vec[1].cache[0].dirty /\ ~vec[1].cache[PageSize].dirty
  /\ SubSeq(vec[1].f, PageSize + 1, PageSize + Len(vec[1].cache[PageSize].data))
       = vec[1].cache[PageSize].data
  /\ vec[1].f[PageSize + 1] # Pattern[PageSize + 1]

(***************************************************************************)
(* SpecExhaust: one vector of either backend and one iterator on it, which *)
(* moves by Next() and by Skip(n) with a small n or the largest unsigned   *)
(* word, writes and closes, over a store that may fail.                    *)
(* hist.nexts becomes 1 when a Next() or Skip() call returns false.        *)
(***************************************************************************)
NextExhaust ==
  \/ \E i \in Cuts, j \in Cuts, down \in BOOLEAN :
       /\ i <= j
       /\ Iterate(1, 1, i, j, down)
       /\ UNCHANGED hist
  \/ \E io \in FaultsOf(1, Faults) :
       /\ Next(1, io)
       /\ hist' = [hist EXCEPT !.nexts = IF ret'.val THEN @ ELSE 1]
  \/ \E n \in {MaxSkip, MaxUint}, io \in FaultsOf(1, Faults) :
       /\ Skip(1, n, io)
       /\ hist' = [hist EXCEPT !.nexts = IF ret'.val THEN @ ELSE 1]
  \/ \E bit \in BOOLEAN : SetBit(1, bit) /\ UNCHANGED hist
  \/ \E io \in WriteFaultsOf(1, Faults) : Close(1, io) /\ UNCHANGED hist

SpecExhaust == Init /\ [][NextExhaust]_vars

====
